---- MODULE Spec2Model ----
(***************************************************************************)
(* Salary settlement of the dairy records application.                     *)
(*                                                                         *)
(* The record store (the salary_entries, credit_entries and                *)
(* payment_records tables) is shared by every client.  A client is one     *)
(* browser showing the Settle Salary page; an invocation of                *)
(* handleSettleSalary is a closure over the lists the page held when the   *)
(* button was pressed, and it runs as a sequence of awaited store calls.   *)
(* The page's lists are taken as freshly fetched when the handler is       *)
(* invoked (fetch on mount and on every realtime change notification).     *)
(* Amounts are whole currency units.                                       *)
(***************************************************************************)
EXTENDS Integers, Sequences, FiniteSets, Bags, TLC

Employees == {"e1", "e2"}
Clients == {"c1", "c2"}
\* What the operators type into the salary form: employee, amount, liters.
SalaryInputs == {<<"e1", 20, 5>>, <<"e2", 20, 5>>, <<"e1", 0, 5>>, <<"e1", 20, 0>>}
\* What they type into the credit form: employee, date (a day number), amount.
CreditInputs == {<<"e1", 1, 30>>, <<"e1", 2, 30>>, <<"e1", 2, 50>>,
                 <<"e2", 1, 30>>, <<"e2", 1, 0>>}
\* What an operator may type into the manual credit field.
ManualInputs == {"", "abc", "-10", "0", "30", "60", "200"}

\* Bounds of the model: rows of the salary and of the credit table that the
\* forms fill, settlements started.
MaxSalaryEntries == 2
MaxCreditEntries == 2
MaxPayments == 2
\* Rows of the credit table the reallocation is tried on.
MaxWalkEntries == 3
\* Rows of the credit table two operators settle on at the same time.
MaxRaceEntries == 1
\* Rows of the salary table a page renders.
MaxDisplayEntries == 2
\* Rows of each table while the forms and the settlements take turns.
MaxLedgerEntries == 1
\* Rows of each table while the forms are used during a settlement.
MaxLateEntries == 2

\* new Date(): the day the operators work on, the last of the days 1..3 that
\* the credit form accepts.
Today == 3

VARIABLES salaryTable, creditTable, paymentTable, call, isSettling, rendered,
          journal

vars == <<salaryTable, creditTable, paymentTable, call, isSettling, rendered,
          journal>>
tables == <<salaryTable, creditTable, paymentTable>>

----------------------------------------------------------------------------
(* Pure helpers                                                            *)

RECURSIVE SumAmounts(_)
SumAmounts(s) ==
    IF s = <<>> THEN 0 ELSE Head(s).amount + SumAmounts(Tail(s))

RECURSIVE SetToSeq(_)
SetToSeq(S) ==
    IF S = {} THEN <<>>
    ELSE LET x == CHOOSE y \in S : \A z \in S : y.id <= z.id
         IN <<x>> \o SetToSeq(S \ {x})

Range(s) == {s[i] : i \in 1..Len(s)}

\* parseFloat on the strings the model types into the field.
Numerals == ("-10" :> -10) @@ ("0" :> 0) @@ ("30" :> 30) @@ ("60" :> 60)
            @@ ("200" :> 200)

ParseFloat(s) ==
    IF s \in DOMAIN Numerals THEN [nan |-> FALSE, val |-> Numerals[s]]
    ELSE [nan |-> TRUE, val |-> 0]

\* Variant: no fallback for an input that is not a number, which then counts
\* as below zero.
ManualCreditNoFallback(raw) ==
    LET p == ParseFloat(IF raw = "" THEN "0" ELSE raw)
    IN IF p.nan THEN -1 ELSE p.val

\* parseFloat(manualAdjustments[employeeId] || "0") || 0
ManualCredit(raw) ==
    LET p == ParseFloat(IF raw = "" THEN "0" ELSE raw)
    IN IF p.nan \/ p.val = 0 THEN 0 ELSE p.val

\* salaryEntries.filter(entry => entry.employeeId === employee.id)
EmployeeSalaryEntries(salaryEntries, e) ==
    {en \in salaryEntries : en.employeeId = e}

\* employeeSalaryEntries.reduce((total, entry) => total + entry.amount, 0)
TotalSalary(salaryEntries, e) ==
    SumAmounts(SetToSeq(EmployeeSalaryEntries(salaryEntries, e)))

\* Variant: the cap is the credit dated after the employee's last payment.
LastPaymentDate(e) ==
    LET dates == {r.paymentDate : r \in {x \in BagToSet(paymentTable) :
                                            x.employeeId = e}}
    IN IF dates = {} THEN 0 ELSE CHOOSE d \in dates : \A o \in dates : o <= d

TotalCreditSinceLastPayment(creditEntries, e) ==
    SumAmounts(SelectSeq(creditEntries,
        LAMBDA en : en.employeeId = e /\ en.date > LastPaymentDate(e)))

\* creditEntries.filter(...).reduce((total, entry) => total + entry.amount, 0)
TotalAvailableCredit(creditEntries, e) ==
    SumAmounts(SelectSeq(creditEntries, LAMBDA en : en.employeeId = e))

\* Variant: a net amount that is never below zero.
NetPayableClamped(totalSalary, manualCredit) ==
    IF totalSalary - manualCredit < 0 THEN 0 ELSE totalSalary - manualCredit

\* netPayable = totalSalary - manualCredit
NetPayable(totalSalary, manualCredit) == totalSalary - manualCredit

\* Variants: a validation without the upper limit, one without the lower.
ValidateOnlyNegative(manualCredit, availableCredit) ==
    IF manualCredit < 0 THEN "Manual credit cannot be negative" ELSE "ok"

ValidateOnlyExceeding(manualCredit, availableCredit) ==
    IF manualCredit > availableCredit
    THEN "Manual credit adjustment cannot exceed total available credit"
    ELSE "ok"

ValidateSettlement(manualCredit, availableCredit) ==
    IF manualCredit < 0 THEN "Manual credit cannot be negative"
    ELSE IF manualCredit > availableCredit
         THEN "Manual credit adjustment cannot exceed total available credit"
         ELSE "ok"

\* .order('date', { ascending: false }): any order of the rows with the dates
\* descending; the order of rows of one date is the store's choice.
FetchOrders(table) ==
    LET n == Cardinality(table)
    IN {s \in [1..n -> table] :
          /\ \A i, j \in 1..n : i # j => s[i] # s[j]
          /\ \A i, j \in 1..n : i < j => s[i].date >= s[j].date}

\* Variant: no sort, the entries stay in the order they were fetched in.
KeepFetchOrder(s) == s

\* Array.prototype.sort with (a, b) => date(a) - date(b): stable, ascending.
RECURSIVE InsertByDate(_, _)
InsertByDate(en, s) ==
    IF s = <<>> THEN <<en>>
    ELSE IF Head(s).date < en.date THEN <<Head(s)>> \o InsertByDate(en, Tail(s))
         ELSE <<en>> \o s

RECURSIVE SortByDateAsc(_)
SortByDateAsc(s) ==
    IF s = <<>> THEN <<>> ELSE InsertByDate(Head(s), SortByDateAsc(Tail(s)))

OtherEmployeesEntries(creditEntries, e) ==
    SelectSeq(creditEntries, LAMBDA en : en.employeeId # e)

ThisEmployeeEntries(creditEntries, e) ==
    SortByDateAsc(SelectSeq(creditEntries, LAMBDA en : en.employeeId = e))

\* Variant: a walk that stops at the entry where nothing remains to remove,
\* and keeps none of the entries from there on.
RECURSIVE ConsumeCreditDropsRest(_, _)
ConsumeCreditDropsRest(entries, remainingCreditToRemove) ==
    IF entries = <<>> \/ remainingCreditToRemove <= 0 THEN <<>>
    ELSE LET entry == Head(entries)
         IN IF entry.amount <= remainingCreditToRemove
            THEN ConsumeCreditDropsRest(Tail(entries),
                                        remainingCreditToRemove - entry.amount)
            ELSE <<[entry EXCEPT !.amount =
                             entry.amount - remainingCreditToRemove]>>
                 \o ConsumeCreditDropsRest(Tail(entries), 0)

\* Variant: an entry is removed only when its amount is below what remains, so
\* an entry that is used up exactly stays.
RECURSIVE ConsumeCreditKeepsZero(_, _)
ConsumeCreditKeepsZero(entries, remainingCreditToRemove) ==
    IF entries = <<>> THEN <<>>
    ELSE LET entry == Head(entries)
         IN IF remainingCreditToRemove > 0
            THEN IF entry.amount < remainingCreditToRemove
                 THEN ConsumeCreditKeepsZero(Tail(entries),
                                    remainingCreditToRemove - entry.amount)
                 ELSE <<[entry EXCEPT !.amount =
                                  entry.amount - remainingCreditToRemove]>>
                      \o ConsumeCreditKeepsZero(Tail(entries), 0)
            ELSE <<entry>> \o ConsumeCreditKeepsZero(Tail(entries),
                                                     remainingCreditToRemove)

\* The oldest-first walk over this employee's entries.
RECURSIVE ConsumeCredit(_, _)
ConsumeCredit(entries, remainingCreditToRemove) ==
    IF entries = <<>> THEN <<>>
    ELSE LET entry == Head(entries)
         IN IF remainingCreditToRemove > 0
            THEN IF entry.amount <= remainingCreditToRemove
                 THEN ConsumeCredit(Tail(entries),
                                    remainingCreditToRemove - entry.amount)
                 ELSE <<[entry EXCEPT !.amount =
                                  entry.amount - remainingCreditToRemove]>>
                      \o ConsumeCredit(Tail(entries), 0)
            ELSE <<entry>> \o ConsumeCredit(Tail(entries),
                                            remainingCreditToRemove)

\* Variant: the other employees' entries are left out of the new collection.
UpdatedOnlyThisEmployee(creditEntries, e, manualCredit) ==
    ConsumeCredit(ThisEmployeeEntries(creditEntries, e), manualCredit)

\* updatedCreditEntries: the other employees' entries, then what the walk keeps.
UpdatedCreditEntries(creditEntries, e, manualCredit) ==
    OtherEmployeesEntries(creditEntries, e)
        \o ConsumeCredit(ThisEmployeeEntries(creditEntries, e), manualCredit)

\* The rows an insert of `entries` creates: the store gives each a new id
\* (gen_random_uuid()), here the least numbers that are in `used` nowhere.
RECURSIVE FreshIds(_, _)
FreshIds(n, used) ==
    IF n = 0 THEN <<>>
    ELSE LET id == CHOOSE i \in 1..(Cardinality(used) + 1) : i \notin used
         IN <<id>> \o FreshIds(n - 1, used \cup {id})

\* Variant: an entry that comes with an id is written under that id.
InsertedRowsKeepIds(entries, used) ==
    LET ids == FreshIds(Len(entries), used)
    IN {[id |-> IF "id" \in DOMAIN entries[i] THEN entries[i].id ELSE ids[i],
         employeeId |-> entries[i].employeeId,
         date |-> entries[i].date, amount |-> entries[i].amount] :
           i \in 1..Len(entries)}

InsertedRows(entries, used) ==
    LET ids == FreshIds(Len(entries), used)
    IN {[id |-> ids[i], employeeId |-> entries[i].employeeId,
         date |-> entries[i].date, amount |-> entries[i].amount] :
           i \in 1..Len(entries)}

----------------------------------------------------------------------------
(* State                                                                   *)

NoCall == [pc |-> "idle", raw |-> "", manualCredit |-> 0, lastSalary |-> 0,
           totalCredit |-> 0, netPayable |-> 0, salaryEntries |-> {},
           creditEntries |-> <<>>, paymentRecords |-> EmptyBag,
           toRemove |-> {}, storeCalls |-> <<>>, outcome |-> "none"]

\* The journal is no state of the program: when it is kept (on), it holds what
\* the forms have entered for each employee so far (entries added, and what
\* an edit of a credit entry adds or takes) and the last toast of the salary
\* form.
NoJournal == [on |-> FALSE, salaryAdded |-> [e \in Employees |-> 0],
              creditAdded |-> [e \in Employees |-> 0], toast |-> "none"]

Kept(j) == IF journal.on THEN j ELSE journal

KeptJournal == [NoJournal EXCEPT !.on = TRUE]

InFlight(c, e) == call[c][e].pc # "idle"
AnyInFlight == \E c \in Clients, e \in Employees : InFlight(c, e)

Init ==
    /\ salaryTable = {}
    /\ creditTable = {}
    /\ paymentTable = EmptyBag
    /\ call = [c \in Clients |-> [e \in Employees |-> NoCall]]
    /\ isSettling = [c \in Clients |-> [e \in Employees |-> FALSE]]
    /\ rendered = {}
    /\ journal = NoJournal

----------------------------------------------------------------------------
(* The forms                                                               *)

\* Ids a row of the salary table, or a list some invocation still holds, uses.
SalaryIdsInUse ==
    {en.id : en \in salaryTable} \cup
    UNION {{en.id : en \in call[c][e].salaryEntries} :
              c \in Clients, e \in Employees}

CreditIdsInUse ==
    {en.id : en \in creditTable} \cup
    UNION {{en.id : en \in Range(call[c][e].creditEntries)} :
              c \in Clients, e \in Employees}

\* Variant: a form that looks at the amount only.
SubmitSalaryAnyLiters(e, amount, liters) ==
    /\ Cardinality(salaryTable) < MaxSalaryEntries
    /\ salaryTable' =
          IF amount <= 0 THEN salaryTable
          ELSE salaryTable \cup
                 {[id |-> FreshIds(1, SalaryIdsInUse)[1], employeeId |-> e,
                   amount |-> amount, liters |-> liters]}
    /\ journal' = Kept(
          IF amount <= 0
          THEN [journal EXCEPT !.toast = "Please enter a valid amount"]
          ELSE [journal EXCEPT !.toast = "Salary entry added successfully",
                               !.salaryAdded[e] = @ + amount])
    /\ UNCHANGED <<creditTable, paymentTable, call, isSettling, rendered>>

\* Salary form, the fields parsed: amount and liters must be above 0, and
\* then addSalaryEntry inserts the row.
SubmitSalary(e, amount, liters) ==
    /\ Cardinality(salaryTable) < MaxSalaryEntries
    /\ salaryTable' =
          IF amount <= 0 \/ liters <= 0 THEN salaryTable
          ELSE salaryTable \cup
                 {[id |-> FreshIds(1, SalaryIdsInUse)[1], employeeId |-> e,
                   amount |-> amount, liters |-> liters]}
    /\ journal' = Kept(
          IF amount <= 0
          THEN [journal EXCEPT !.toast = "Please enter a valid amount"]
          ELSE IF liters <= 0
          THEN [journal EXCEPT !.toast = "Please enter valid liters"]
          ELSE [journal EXCEPT !.toast = "Salary entry added successfully",
                               !.salaryAdded[e] = @ + amount])
    /\ UNCHANGED <<creditTable, paymentTable, call, isSettling, rendered>>

\* Salary form, as submitted: a field left empty, or one that parseFloat makes
\* no number of, stops the handler before addSalaryEntry.
HandleSubmit(employeeId, amount, liters) ==
    IF employeeId = "" \/ amount = "" \/ liters = ""
    THEN /\ journal' = Kept([journal EXCEPT !.toast = "Please fill in all fields"])
         /\ UNCHANGED <<salaryTable, creditTable, paymentTable, call,
                        isSettling, rendered>>
    ELSE IF ParseFloat(amount).nan
    THEN /\ journal' = Kept([journal EXCEPT !.toast = "Please enter a valid amount"])
         /\ UNCHANGED <<salaryTable, creditTable, paymentTable, call,
                        isSettling, rendered>>
    ELSE IF ParseFloat(liters).nan /\ ParseFloat(amount).val > 0
    THEN /\ journal' = Kept([journal EXCEPT !.toast = "Please enter valid liters"])
         /\ UNCHANGED <<salaryTable, creditTable, paymentTable, call,
                        isSettling, rendered>>
    ELSE SubmitSalary(employeeId, ParseFloat(amount).val, ParseFloat(liters).val)

\* Credit form, add mode.
SubmitCredit(e, date, amount) ==
    /\ Cardinality(creditTable) < MaxCreditEntries
    /\ creditTable' =
          IF amount <= 0 THEN creditTable
          ELSE creditTable \cup InsertedRows(
                  <<[employeeId |-> e, date |-> date, amount |-> amount]>>,
                  CreditIdsInUse)
    /\ journal' = Kept(IF amount <= 0 THEN journal
                       ELSE [journal EXCEPT !.creditAdded[e] = @ + amount])
    /\ UNCHANGED <<salaryTable, paymentTable, call, isSettling, rendered>>

\* Credit form, edit mode: the same validation, then updateCreditEntry.
EditCredit(id, e, date, amount) ==
    /\ \E en \in creditTable : en.id = id
    /\ creditTable' =
          IF amount <= 0 THEN creditTable
          ELSE {IF en.id = id
                THEN [id |-> id, employeeId |-> e, date |-> date, amount |-> amount]
                ELSE en : en \in creditTable}
    /\ journal' = Kept(
          IF amount <= 0 THEN journal
          ELSE LET old == CHOOSE en \in creditTable : en.id = id
               IN [journal EXCEPT !.creditAdded =
                      [x \in Employees |->
                          @[x] - (IF old.employeeId = x THEN old.amount ELSE 0)
                               + (IF e = x THEN amount ELSE 0)]])
    /\ UNCHANGED <<salaryTable, paymentTable, call, isSettling, rendered>>

\* handleDelete, confirmed: removeCreditEntry.
DeleteCredit(id) ==
    /\ \E en \in creditTable : en.id = id
    /\ creditTable' = {en \in creditTable : en.id # id}
    /\ UNCHANGED <<salaryTable, paymentTable, call, isSettling, rendered,
                   journal>>

----------------------------------------------------------------------------
(* handleSettleSalary                                                      *)

Started == BagCardinality(paymentTable) + Cardinality(
    {ce \in Clients \X Employees : call[ce[1]][ce[2]].pc = "addPaymentRecord"})

Finish(k, outcome) == [k EXCEPT !.pc = "done", !.outcome = outcome]

\* Variant: only a negative total stops the settlement.
NoSalaryOnlyBelowZero(lastSalary) == lastSalary < 0

\* if (summary.lastSalary <= 0)
NoSalaryToSettle(lastSalary) == lastSalary <= 0

\* Variant: setIsSettling comes first, before the validation.
HandleSettleSalaryFlagsFirst(c, e, raw) ==
    /\ call[c][e].pc = "idle"
    /\ ~isSettling[c][e]
    /\ Started < MaxPayments
    /\ \E creditEntries \in FetchOrders(creditTable) :
         LET manualCredit == ManualCredit(raw)
             lastSalary == TotalSalary(salaryTable, e)
             totalCredit == TotalAvailableCredit(creditEntries, e)
             validationError == ValidateSettlement(manualCredit, totalCredit)
             k == [NoCall EXCEPT !.raw = raw,
                                 !.manualCredit = manualCredit,
                                 !.lastSalary = lastSalary,
                                 !.totalCredit = totalCredit,
                                 !.netPayable = NetPayable(lastSalary, manualCredit),
                                 !.salaryEntries = salaryTable,
                                 !.creditEntries = creditEntries,
                                 !.paymentRecords = paymentTable,
                                 !.toRemove = {en.id : en \in
                                     EmployeeSalaryEntries(salaryTable, e)}]
         IN IF validationError # "ok"
            THEN /\ call' = [call EXCEPT ![c][e] = Finish(k, validationError)]
                 /\ isSettling' = [isSettling EXCEPT ![c][e] = TRUE]
            ELSE IF NoSalaryToSettle(lastSalary)
            THEN /\ call' = [call EXCEPT ![c][e] =
                        Finish(k, "Cannot settle salary - no salary entries found")]
                 /\ isSettling' = [isSettling EXCEPT ![c][e] = TRUE]
            ELSE /\ call' = [call EXCEPT ![c][e] = [k EXCEPT !.pc = "addPaymentRecord"]]
                 /\ isSettling' = [isSettling EXCEPT ![c][e] = TRUE]
    /\ UNCHANGED <<salaryTable, creditTable, paymentTable, rendered, journal>>

\* The button is pressed: the summary, the validation, setIsSettling.
HandleSettleSalary(c, e, raw) ==
    /\ call[c][e].pc = "idle"
    /\ ~isSettling[c][e]
    /\ Started < MaxPayments
    /\ \E creditEntries \in FetchOrders(creditTable) :
         LET manualCredit == ManualCredit(raw)
             lastSalary == TotalSalary(salaryTable, e)
             totalCredit == TotalAvailableCredit(creditEntries, e)
             validationError == ValidateSettlement(manualCredit, totalCredit)
             k == [NoCall EXCEPT !.raw = raw,
                                 !.manualCredit = manualCredit,
                                 !.lastSalary = lastSalary,
                                 !.totalCredit = totalCredit,
                                 !.netPayable = NetPayable(lastSalary, manualCredit),
                                 !.salaryEntries = salaryTable,
                                 !.creditEntries = creditEntries,
                                 !.paymentRecords = paymentTable,
                                 !.toRemove = {en.id : en \in
                                     EmployeeSalaryEntries(salaryTable, e)}]
         IN IF validationError # "ok"
            THEN /\ call' = [call EXCEPT ![c][e] = Finish(k, validationError)]
                 /\ UNCHANGED isSettling
            ELSE IF NoSalaryToSettle(lastSalary)
            THEN /\ call' = [call EXCEPT ![c][e] =
                        Finish(k, "Cannot settle salary - no salary entries found")]
                 /\ UNCHANGED isSettling
            ELSE /\ call' = [call EXCEPT ![c][e] = [k EXCEPT !.pc = "addPaymentRecord"]]
                 /\ isSettling' = [isSettling EXCEPT ![c][e] = TRUE]
    /\ UNCHANGED <<salaryTable, creditTable, paymentTable, rendered, journal>>

\* The store calls an invocation has issued so far, each with its result.
Issued(k, name, arg, ok) ==
    [k EXCEPT !.storeCalls = Append(@, [name |-> name, arg |-> arg, ok |-> ok])]

\* A store call that returns an error: the hook rethrows it and the handler's
\* catch block reports the failure.
Throw(k, name, arg) == Finish(Issued(k, name, arg, FALSE), "Settlement Failed")

\* Variants: a record whose net amount is the salary, one whose net amount
\* has lost its sign.
PaymentRecordGross(e, k) ==
    [employeeId |-> e, salaryAmount |-> k.lastSalary,
     creditDeducted |-> k.manualCredit, netPaid |-> k.lastSalary,
     paymentDate |-> Today]

PaymentRecordAbsolute(e, k) ==
    [employeeId |-> e, salaryAmount |-> k.lastSalary,
     creditDeducted |-> k.manualCredit,
     netPaid |-> IF k.netPayable < 0 THEN 0 - k.netPayable ELSE k.netPayable,
     paymentDate |-> Today]

\* The record handleSettleSalary hands to addPaymentRecord.
PaymentRecord(e, k) ==
    [employeeId |-> e, salaryAmount |-> k.lastSalary,
     creditDeducted |-> k.manualCredit, netPaid |-> k.netPayable,
     paymentDate |-> Today]

\* Variant: the record replaces the employee's earlier records.
AddPaymentRecordReplaces(c, e) ==
    LET k == call[c][e] IN
    /\ k.pc = "addPaymentRecord"
    /\ paymentTable' = SetToBag({PaymentRecord(e, k)}) (+)
          [r \in {x \in BagToSet(paymentTable) : x.employeeId # e}
              |-> paymentTable[r]]
    /\ call' = [call EXCEPT ![c][e] =
           [Issued(k, "addPaymentRecord", 0, TRUE) EXCEPT
               !.pc = IF k.toRemove = {} THEN "deleteAll"
                      ELSE "removeSalaryEntry"]]
    /\ UNCHANGED <<salaryTable, creditTable, isSettling, rendered, journal>>

\* Variant: a conditional write, no record is inserted when the store holds
\* one for this employee that the invocation has not seen.
AddPaymentRecordIfUnpaid(c, e) ==
    LET k == call[c][e] IN
    /\ k.pc = "addPaymentRecord"
    /\ paymentTable' =
          IF \E r \in BagToSet(paymentTable) :
                r.employeeId = e /\ ~BagIn(r, k.paymentRecords)
          THEN paymentTable
          ELSE paymentTable (+) SetToBag({PaymentRecord(e, k)})
    /\ call' = [call EXCEPT ![c][e] =
           [Issued(k, "addPaymentRecord", 0, TRUE) EXCEPT
               !.pc = IF k.toRemove = {} THEN "deleteAll"
                      ELSE "removeSalaryEntry"]]
    /\ UNCHANGED <<salaryTable, creditTable, isSettling, rendered, journal>>

\* Variant: the credit entries are replaced right after the payment record.
AddPaymentRecordThenCredit(c, e) ==
    LET k == call[c][e] IN
    /\ k.pc = "addPaymentRecord"
    /\ paymentTable' = paymentTable (+) SetToBag({PaymentRecord(e, k)})
    /\ call' = [call EXCEPT ![c][e] =
           [Issued(k, "addPaymentRecord", 0, TRUE) EXCEPT !.pc = "deleteAll"]]
    /\ UNCHANGED <<salaryTable, creditTable, isSettling, rendered, journal>>

AddPaymentRecord(c, e) ==
    LET k == call[c][e] IN
    /\ k.pc = "addPaymentRecord"
    /\ paymentTable' = paymentTable (+) SetToBag({PaymentRecord(e, k)})
    /\ call' = [call EXCEPT ![c][e] =
           [Issued(k, "addPaymentRecord", 0, TRUE) EXCEPT
               !.pc = IF k.toRemove = {} THEN "deleteAll"
                      ELSE "removeSalaryEntry"]]
    /\ UNCHANGED <<salaryTable, creditTable, isSettling, rendered, journal>>

\* Variant: a pass of the loop deletes the rows of the employee, not a row
\* by its id.
RemoveSalaryEntryOfEmployee(c, e) ==
    LET k == call[c][e] IN
    /\ k.pc = "removeSalaryEntry"
    /\ \E id \in k.toRemove :
         /\ salaryTable' = {en \in salaryTable : en.employeeId # e}
         /\ call' = [call EXCEPT ![c][e] =
                [Issued(k, "removeSalaryEntry", id, TRUE) EXCEPT
                    !.toRemove = @ \ {id},
                    !.pc = IF k.toRemove = {id} THEN "deleteAll"
                           ELSE "removeSalaryEntry"]]
    /\ UNCHANGED <<creditTable, paymentTable, isSettling, rendered, journal>>

\* Variant: a pass of the loop that leaves the row in the table.
RemoveSalaryEntryKeeps(c, e) ==
    LET k == call[c][e] IN
    /\ k.pc = "removeSalaryEntry"
    /\ \E id \in k.toRemove :
         call' = [call EXCEPT ![c][e] =
                [Issued(k, "removeSalaryEntry", id, TRUE) EXCEPT
                    !.toRemove = @ \ {id},
                    !.pc = IF k.toRemove = {id} THEN "deleteAll"
                           ELSE "removeSalaryEntry"]]
    /\ UNCHANGED <<salaryTable, creditTable, paymentTable, isSettling,
                   rendered, journal>>

\* One pass of the loop over the employee's salary entries.
RemoveSalaryEntry(c, e) ==
    LET k == call[c][e] IN
    /\ k.pc = "removeSalaryEntry"
    /\ \E id \in k.toRemove :
         /\ salaryTable' = {en \in salaryTable : en.id # id}
         /\ call' = [call EXCEPT ![c][e] =
                [Issued(k, "removeSalaryEntry", id, TRUE) EXCEPT
                    !.toRemove = @ \ {id},
                    !.pc = IF k.toRemove = {id} THEN "deleteAll"
                           ELSE "removeSalaryEntry"]]
    /\ UNCHANGED <<creditTable, paymentTable, isSettling, rendered, journal>>

\* Variant: the delete takes the rows the invocation has seen, by their ids.
DeleteAllCreditSeen(c, e) ==
    LET k == call[c][e]
        entries == UpdatedCreditEntries(k.creditEntries, e, k.manualCredit) IN
    /\ k.pc = "deleteAll"
    /\ creditTable' = {en \in creditTable :
                          en.id \notin {x.id : x \in Range(k.creditEntries)}}
    /\ call' = [call EXCEPT ![c][e] =
           IF Len(entries) > 0
           THEN [Issued(k, "deleteAll", 0, TRUE) EXCEPT !.pc = "insert"]
           ELSE Finish(Issued(k, "deleteAll", 0, TRUE),
                       "Salary Settled Successfully")]
    /\ UNCHANGED <<salaryTable, paymentTable, isSettling, rendered, journal>>

\* Variant: the delete takes the rows of the employee being settled only.
DeleteAllCreditOfEmployee(c, e) ==
    LET k == call[c][e]
        entries == UpdatedCreditEntries(k.creditEntries, e, k.manualCredit) IN
    /\ k.pc = "deleteAll"
    /\ creditTable' = {en \in creditTable : en.employeeId # e}
    /\ call' = [call EXCEPT ![c][e] =
           IF Len(entries) > 0
           THEN [Issued(k, "deleteAll", 0, TRUE) EXCEPT !.pc = "insert"]
           ELSE Finish(Issued(k, "deleteAll", 0, TRUE),
                       "Salary Settled Successfully")]
    /\ UNCHANGED <<salaryTable, paymentTable, isSettling, rendered, journal>>

\* updateCreditEntries, first store call: delete every row.
DeleteAllCredit(c, e) ==
    LET k == call[c][e]
        entries == UpdatedCreditEntries(k.creditEntries, e, k.manualCredit) IN
    /\ k.pc = "deleteAll"
    /\ creditTable' = {}
    /\ call' = [call EXCEPT ![c][e] =
           IF Len(entries) > 0
           THEN [Issued(k, "deleteAll", 0, TRUE) EXCEPT !.pc = "insert"]
           ELSE Finish(Issued(k, "deleteAll", 0, TRUE),
                       "Salary Settled Successfully")]
    /\ UNCHANGED <<salaryTable, paymentTable, isSettling, rendered, journal>>

\* updateCreditEntries, second store call: insert the recomputed entries.
InsertCredit(c, e) ==
    LET k == call[c][e]
        entries == UpdatedCreditEntries(k.creditEntries, e, k.manualCredit) IN
    /\ k.pc = "insert"
    /\ creditTable' = creditTable \cup InsertedRows(entries, CreditIdsInUse)
    /\ call' = [call EXCEPT ![c][e] =
           Finish(Issued(k, "insert", 0, TRUE), "Salary Settled Successfully")]
    /\ UNCHANGED <<salaryTable, paymentTable, isSettling, rendered, journal>>

\* Variant: on an error the payment record of this invocation is taken back.
StoreCallFailsRollsBack(c, e) ==
    LET k == call[c][e] IN
    /\ k.pc \in {"addPaymentRecord", "deleteAll", "insert"}
    /\ call' = [call EXCEPT ![c][e] = Throw(k, k.pc, 0)]
    /\ paymentTable' = k.paymentRecords
    /\ UNCHANGED <<salaryTable, creditTable, isSettling, rendered, journal>>

\* Variant: a store call that returned an error is issued once more.
StoreCallFailsRetries(c, e) ==
    LET k == call[c][e] IN
    /\ k.pc \in {"addPaymentRecord", "deleteAll", "insert"}
    /\ call' = [call EXCEPT ![c][e] =
           IF \A i \in 1..Len(k.storeCalls) : k.storeCalls[i].ok
           THEN Issued(k, k.pc, 0, FALSE)
           ELSE Throw(k, k.pc, 0)]
    /\ UNCHANGED <<salaryTable, creditTable, paymentTable, isSettling,
                   rendered, journal>>

\* The store call the handler is waiting for returns an error.
StoreCallFails(c, e) ==
    LET k == call[c][e] IN
    /\ k.pc \in {"addPaymentRecord", "deleteAll", "insert"}
    /\ call' = [call EXCEPT ![c][e] = Throw(k, k.pc, 0)]
    /\ UNCHANGED <<salaryTable, creditTable, paymentTable, isSettling,
                   rendered, journal>>

\* Variant: when a deletion fails the payment record is taken back.
RemoveSalaryEntryFailsUndoesPayment(c, e) ==
    LET k == call[c][e] IN
    /\ k.pc = "removeSalaryEntry"
    /\ \E id \in k.toRemove :
         call' = [call EXCEPT ![c][e] = Throw(k, "removeSalaryEntry", id)]
    /\ paymentTable' = k.paymentRecords
    /\ UNCHANGED <<salaryTable, creditTable, isSettling, rendered, journal>>

\* removeSalaryEntry returns an error for the entry the loop has reached.
RemoveSalaryEntryFails(c, e) ==
    LET k == call[c][e] IN
    /\ k.pc = "removeSalaryEntry"
    /\ \E id \in k.toRemove :
         call' = [call EXCEPT ![c][e] = Throw(k, "removeSalaryEntry", id)]
    /\ UNCHANGED <<salaryTable, creditTable, paymentTable, isSettling,
                   rendered, journal>>

\* Variant: no finally block, the flag stays as it is.
ReturnKeepsFlag(c, e) ==
    /\ call[c][e].pc = "done"
    /\ call' = [call EXCEPT ![c][e] = NoCall]
    /\ UNCHANGED <<salaryTable, creditTable, paymentTable, isSettling, rendered,
                   journal>>

\* The toast and the finally block: the invocation ends.
Return(c, e) ==
    /\ call[c][e].pc = "done"
    /\ call' = [call EXCEPT ![c][e] = NoCall]
    /\ isSettling' = [isSettling EXCEPT ![c][e] = FALSE]
    /\ UNCHANGED <<salaryTable, creditTable, paymentTable, rendered, journal>>

----------------------------------------------------------------------------
(* Specifications                                                          *)

Form ==
    \/ \E in \in SalaryInputs : SubmitSalary(in[1], in[2], in[3])
    \/ \E in \in CreditInputs : SubmitCredit(in[1], in[2], in[3])

Press == \E c \in Clients, e \in Employees, raw \in ManualInputs :
            HandleSettleSalary(c, e, raw)

Step ==
    \E c \in Clients, e \in Employees :
        \/ AddPaymentRecord(c, e)
        \/ RemoveSalaryEntry(c, e)
        \/ DeleteAllCredit(c, e)
        \/ InsertCredit(c, e)
        \/ Return(c, e)

Fail == \E c \in Clients, e \in Employees :
           StoreCallFails(c, e) \/ RemoveSalaryEntryFails(c, e)

\* Every interleaving of the clients and the forms, store calls failing or not.
Next == Form \/ Press \/ Step \/ Fail

Spec == Init /\ [][Next]_vars

\* One operator at a time, on a store the forms have filled: nothing else
\* runs while a settlement is in flight, and every store call succeeds.
PressAlone == \E e \in Employees, raw \in ManualInputs :
                 HandleSettleSalary("c1", e, raw)

\* The ids the store gives its rows carry no order, so it is enough that the
\* forms write the rows of a table in one order: by employee, date and amount.
EmployeeRank == ("e1" :> 1) @@ ("e2" :> 2)
SalaryKey(e, amount) == EmployeeRank[e] * 1000 + amount
CreditKey(e, date, amount) == EmployeeRank[e] * 10000 + date * 1000 + amount

FormInOrder ==
    \/ \E in \in SalaryInputs :
          /\ \A en \in salaryTable :
                SalaryKey(en.employeeId, en.amount) <= SalaryKey(in[1], in[2])
          /\ SubmitSalary(in[1], in[2], in[3])
    \/ \E in \in CreditInputs :
          /\ \A en \in creditTable :
                CreditKey(en.employeeId, en.date, en.amount)
                    <= CreditKey(in[1], in[2], in[3])
          /\ SubmitCredit(in[1], in[2], in[3])

NextAlone ==
    \/ ~AnyInFlight /\ paymentTable = EmptyBag /\ FormInOrder
    \/ ~AnyInFlight /\ PressAlone
    \/ Step

SpecAlone == Init /\ [][NextAlone]_vars

\* One operator at a time, store calls failing or not; the adjustment typed
\* passes the validation.
PressFailing == \E e \in Employees, raw \in {"", "30"} :
                   HandleSettleSalary("c1", e, raw)

NextFailing ==
    \/ ~AnyInFlight /\ paymentTable = EmptyBag /\ FormInOrder
    \/ ~AnyInFlight /\ PressFailing
    \/ Step
    \/ Fail

SpecFailing == Init /\ [][NextFailing]_vars

\* One operator at a time, at the forms or settling, in any order; store
\* calls failing or not.
FormLedger ==
    \/ /\ Cardinality(salaryTable) < MaxLedgerEntries
       /\ \E in \in SalaryInputs : SubmitSalary(in[1], in[2], in[3])
    \/ /\ Cardinality(creditTable) < MaxLedgerEntries
       /\ \E in \in CreditInputs : SubmitCredit(in[1], in[2], in[3])
    \/ \E en \in creditTable, in \in CreditInputs :
          EditCredit(en.id, in[1], in[2], in[3])
    \/ \E en \in creditTable : DeleteCredit(en.id)

NextLedger ==
    \/ ~AnyInFlight /\ FormLedger
    \/ ~AnyInFlight /\ PressFailing
    \/ Step
    \/ Fail

SpecLedger == Init /\ [][NextLedger]_vars

\* The reallocation on its own: the credit table holds any entries of up to
\* MaxWalkEntries rows that the credit form can have written, each employee
\* has a salary entry, and one operator settles.  The rows are numbered in
\* the order of their keys.
WalkRows == {<<"e1", 1, 50>>, <<"e1", 1, 30>>, <<"e1", 2, 30>>, <<"e1", 2, 20>>,
             <<"e1", 3, 20>>, <<"e2", 2, 30>>}

WalkTables ==
    UNION {{{[id |-> i, employeeId |-> f[i][1], date |-> f[i][2],
              amount |-> f[i][3]] : i \in 1..n} :
               f \in {g \in [1..n -> WalkRows] :
                        \A i, j \in 1..n : i < j =>
                            CreditKey(g[i][1], g[i][2], g[i][3])
                                <= CreditKey(g[j][1], g[j][2], g[j][3])}} :
             n \in 0..MaxWalkEntries}

\* A settlement of e1 on day 2, before the salary entry and some of the
\* credit entries of the table were written.
EarlierPayment ==
    [employeeId |-> "e1", salaryAmount |-> 20, creditDeducted |-> 0,
     netPaid |-> 20, paymentDate |-> 2]

InitWalk ==
    /\ salaryTable = {[id |-> 1, employeeId |-> "e1", amount |-> 20, liters |-> 5],
                      [id |-> 2, employeeId |-> "e2", amount |-> 20, liters |-> 5]}
    /\ creditTable \in WalkTables
    /\ paymentTable \in {EmptyBag, SetToBag({EarlierPayment})}
    /\ call = [c \in Clients |-> [e \in Employees |-> NoCall]]
    /\ isSettling = [c \in Clients |-> [e \in Employees |-> FALSE]]
    /\ rendered = {}
    /\ journal = NoJournal

NextWalk ==
    \/ ~AnyInFlight /\ PressAlone
    \/ Step

SpecWalk == InitWalk /\ [][NextWalk]_vars

\* Two operators, each at a page of their own, settle at the same time on a
\* store of up to MaxRaceEntries credit entries; every store call succeeds.
RaceRows == {<<"e1", 1, 30>>, <<"e1", 2, 50>>, <<"e2", 2, 30>>}

RaceTables ==
    UNION {{{[id |-> i, employeeId |-> f[i][1], date |-> f[i][2],
              amount |-> f[i][3]] : i \in 1..n} :
               f \in {g \in [1..n -> RaceRows] :
                        \A i, j \in 1..n : i < j =>
                            CreditKey(g[i][1], g[i][2], g[i][3])
                                <= CreditKey(g[j][1], g[j][2], g[j][3])}} :
             n \in 0..MaxRaceEntries}

InitTwo ==
    /\ salaryTable = {[id |-> 1, employeeId |-> "e1", amount |-> 20, liters |-> 5]}
    /\ creditTable \in RaceTables
    /\ paymentTable = EmptyBag
    /\ call = [c \in Clients |-> [e \in Employees |-> NoCall]]
    /\ isSettling = [c \in Clients |-> [e \in Employees |-> FALSE]]
    /\ rendered = {}
    /\ journal = NoJournal

PressTwo == \E c \in Clients, raw \in {"", "30"} :
               HandleSettleSalary(c, "e1", raw)

NextTwo == PressTwo \/ Step

SpecTwo == InitTwo /\ [][NextTwo]_vars

\* One operator settles on such a store, store calls failing or not, and
\* every store call returns: an invocation that can take a step takes one.
NextFair ==
    \/ ~AnyInFlight /\ PressFailing
    \/ Step
    \/ Fail

SpecFair == InitTwo /\ [][NextFair]_vars /\ WF_vars(Step)

\* The salary form on its own, with what an operator may leave in its fields.
FormFields == {"", "abc", "-10", "0", "30", "60"}

InitKept ==
    /\ salaryTable = {}
    /\ creditTable = {}
    /\ paymentTable = EmptyBag
    /\ call = [c \in Clients |-> [e \in Employees |-> NoCall]]
    /\ isSettling = [c \in Clients |-> [e \in Employees |-> FALSE]]
    /\ rendered = {}
    /\ journal = KeptJournal

NextSalaryForm ==
    \E employeeId \in Employees \cup {""}, amount \in FormFields,
       liters \in FormFields :
        HandleSubmit(employeeId, amount, liters)

SpecSalaryForm == InitKept /\ [][NextSalaryForm]_vars

\* One operator adds salary and credit entries and settles, in any order;
\* every store call succeeds, and what the forms add is kept in the journal.
FormBooks ==
    \/ /\ Cardinality(salaryTable) < MaxLedgerEntries
       /\ \E in \in SalaryInputs : SubmitSalary(in[1], in[2], in[3])
    \/ /\ Cardinality(creditTable) < MaxLedgerEntries
       /\ \E in \in CreditInputs :
             /\ \A en \in creditTable :
                   CreditKey(en.employeeId, en.date, en.amount)
                       <= CreditKey(in[1], in[2], in[3])
             /\ SubmitCredit(in[1], in[2], in[3])

NextBooks ==
    \/ ~AnyInFlight /\ FormBooks
    \/ ~AnyInFlight /\ PressFailing
    \/ Step

SpecBooks == InitKept /\ [][NextBooks]_vars

\* The forms are used while a settlement is in flight: operators at other
\* pages add salary and credit entries and edit credit entries between its
\* store calls; every store call succeeds.  The journal starts with what the
\* store holds.
LateSalaryInputs == {<<"e1", 20, 5>>}
LateCreditInputs == {<<"e1", 2, 50>>, <<"e2", 1, 30>>}

FormLate ==
    \/ /\ Cardinality(salaryTable) < MaxLateEntries
       /\ \E in \in LateSalaryInputs : SubmitSalary(in[1], in[2], in[3])
    \/ /\ Cardinality(creditTable) < MaxLateEntries
       /\ \E in \in LateCreditInputs : SubmitCredit(in[1], in[2], in[3])
    \/ \E en \in creditTable, in \in LateCreditInputs :
          EditCredit(en.id, in[1], in[2], in[3])

InitLate ==
    /\ salaryTable = {[id |-> 1, employeeId |-> "e1", amount |-> 20, liters |-> 5]}
    /\ creditTable \in RaceTables
    /\ paymentTable = EmptyBag
    /\ call = [c \in Clients |-> [e \in Employees |-> NoCall]]
    /\ isSettling = [c \in Clients |-> [e \in Employees |-> FALSE]]
    /\ rendered = {}
    /\ journal = [KeptJournal EXCEPT
            !.salaryAdded = [e \in Employees |->
                 SumAmounts(SetToSeq(EmployeeSalaryEntries(salaryTable, e)))],
            !.creditAdded = [e \in Employees |->
                 SumAmounts(SetToSeq({en \in creditTable : en.employeeId = e}))]]

Writing == \E c \in Clients, e \in Employees :
               call[c][e].pc \notin {"idle", "done"}

PressLate ==
    /\ paymentTable = EmptyBag
    /\ \E raw \in {"", "30"} : HandleSettleSalary("c1", "e1", raw)

NextLate ==
    \/ Writing /\ FormLate
    \/ PressLate
    \/ Step

SpecLate == InitLate /\ [][NextLate]_vars

\* The pages compute their averages and rates from the lists they hold.
\* A JavaScript number that is a quotient: den = 0 stands for Infinity
\* (num = 1), -Infinity (num = -1) and NaN (num = 0).
Zero == [num |-> 0, den |-> 1]

\* a / b
Quotient(a, b) ==
    IF b # 0 THEN [num |-> a, den |-> b]
    ELSE [num |-> IF a > 0 THEN 1 ELSE IF a < 0 THEN -1 ELSE 0, den |-> 0]

\* Number((a / b).toFixed(2)), for a >= 0 and b > 0
QuotientToFixed2(a, b) == [num |-> (200 * a + b) \div (2 * b), den |-> 100]

RECURSIVE SumLiters(_)
SumLiters(s) ==
    IF s = <<>> THEN 0 ELSE Head(s).liters + SumLiters(Tail(s))

Cell(page, name, key, denominator, value) ==
    [page |-> page, name |-> name, key |-> key,
     denominator |-> denominator, value |-> value]

\* salaryEntryCount > 0 ? totalSalary / salaryEntryCount : 0
AvgSalaryPerEntry(salaryEntries, e) ==
    LET salaryEntryCount == Cardinality(EmployeeSalaryEntries(salaryEntries, e))
    IN IF salaryEntryCount > 0
       THEN Quotient(TotalSalary(salaryEntries, e), salaryEntryCount)
       ELSE Zero

RECURSIVE TotalPayableAmount(_, _)
TotalPayableAmount(salaryEntries, employees) ==
    IF employees = {} THEN 0
    ELSE LET e == CHOOSE x \in employees : TRUE
             netPayable == NetPayable(TotalSalary(salaryEntries, e), 0)
         IN (IF netPayable > 0 THEN netPayable ELSE 0)
                + TotalPayableAmount(salaryEntries, employees \ {e})

\* totalEmployees > 0 ? totalPayableAmount / totalEmployees : 0
AverageNetPayable(salaryEntries, employees) ==
    LET totalEmployees == Cardinality(employees)
    IN IF totalEmployees > 0
       THEN Quotient(TotalPayableAmount(salaryEntries, employees), totalEmployees)
       ELSE Zero

\* employeeEntries.length > 0 ? totalSalary / employeeEntries.length : 0
AvgDailyAmount(salaryEntries, e) ==
    LET employeeEntries == EmployeeSalaryEntries(salaryEntries, e)
    IN IF Cardinality(employeeEntries) > 0
       THEN Quotient(TotalSalary(salaryEntries, e), Cardinality(employeeEntries))
       ELSE Zero

\* entries.length > 0 ? (sum of entry.amount) / entries.length : 0
AvgPerEntry(entries) ==
    IF Cardinality(entries) > 0
    THEN Quotient(SumAmounts(SetToSeq(entries)), Cardinality(entries))
    ELSE Zero

\* formatCurrency(entry.amount / entry.liters)
RatePerLiter(entry) == Quotient(entry.amount, entry.liters)

\* totalMilk > 0 ? Number((totalEarned / totalMilk).toFixed(2)) : 0
AvgRate(salaryEntries, e) ==
    LET empSalaries == SetToSeq(EmployeeSalaryEntries(salaryEntries, e))
        totalEarned == SumAmounts(empSalaries)
        totalMilk == SumLiters(empSalaries)
    IN IF totalMilk > 0 THEN QuotientToFixed2(totalEarned, totalMilk) ELSE Zero

\* entry.liters > 0 ? formatCurrency(entry.amount / entry.liters)
\*                  : formatCurrency(0)
SummaryRatePerLiter(entry) ==
    IF entry.liters > 0 THEN Quotient(entry.amount, entry.liters) ELSE Zero

\* The settlement page, with no adjustment typed.
RenderSettleSalary(employees) ==
    /\ rendered' =
          {Cell("SettleSalary", "avgSalaryPerEntry", e,
                Cardinality(EmployeeSalaryEntries(salaryTable, e)),
                AvgSalaryPerEntry(salaryTable, e)) : e \in employees}
          \cup {Cell("SettleSalary", "averageNetPayable", "all",
                     Cardinality(employees),
                     AverageNetPayable(salaryTable, employees))}
    /\ UNCHANGED <<salaryTable, creditTable, paymentTable, call,
                   isSettling, journal>>

\* The salary page, with all dates and all employees selected.
RenderSalary10Day(employees) ==
    /\ rendered' =
          {Cell("Salary10Day", "avgDailyAmount", e,
                Cardinality(EmployeeSalaryEntries(salaryTable, e)),
                AvgDailyAmount(salaryTable, e)) : e \in employees}
          \cup {Cell("Salary10Day", "avgPerEntry", "all",
                     Cardinality(salaryTable), AvgPerEntry(salaryTable))}
          \cup {Cell("Salary10Day", "ratePerLiter", entry.id,
                     entry.liters, RatePerLiter(entry)) : entry \in salaryTable}
    /\ UNCHANGED <<salaryTable, creditTable, paymentTable, call,
                   isSettling, journal>>

\* The summary page, with all dates selected.
RenderSummary(employees) ==
    /\ rendered' =
          {Cell("Summary", "avgRate", e,
                SumLiters(SetToSeq(EmployeeSalaryEntries(salaryTable, e))),
                AvgRate(salaryTable, e)) : e \in employees}
          \cup {Cell("Summary", "ratePerLiter", entry.id,
                     entry.liters, SummaryRatePerLiter(entry)) :
                   entry \in salaryTable}
    /\ UNCHANGED <<salaryTable, creditTable, paymentTable, call,
                   isSettling, journal>>

\* The salary entries the pages are given: employee, amount, liters.
DisplayRows == {<<"e1", 20, 5>>, <<"e1", 20, 0>>, <<"e1", 0, 0>>, <<"e2", 30, 4>>}

DisplayKey(row) == EmployeeRank[row[1]] * 10000 + row[2] * 100 + row[3]

DisplayTables ==
    UNION {{{[id |-> i, employeeId |-> f[i][1], amount |-> f[i][2],
              liters |-> f[i][3]] : i \in 1..n} :
               f \in {g \in [1..n -> DisplayRows] :
                        \A i, j \in 1..n : i < j =>
                            DisplayKey(g[i]) <= DisplayKey(g[j])}} :
             n \in 0..MaxDisplayEntries}

InitDisplay ==
    /\ salaryTable \in DisplayTables
    /\ creditTable = {}
    /\ paymentTable = EmptyBag
    /\ call = [c \in Clients |-> [e \in Employees |-> NoCall]]
    /\ isSettling = [c \in Clients |-> [e \in Employees |-> FALSE]]
    /\ rendered = {}
    /\ journal = NoJournal

NextDisplay ==
    \E employees \in SUBSET Employees :
        \/ RenderSettleSalary(employees)
        \/ RenderSalary10Day(employees)
        \/ RenderSummary(employees)

SpecDisplay == InitDisplay /\ [][NextDisplay]_vars

----------------------------------------------------------------------------
(* Properties                                                              *)

RECURSIVE AmountSum(_)
AmountSum(rows) ==
    IF rows = {} THEN 0
    ELSE LET r == CHOOSE x \in rows : TRUE
         IN r.amount + AmountSum(rows \ {r})

RowsOf(rows, e) == {r \in rows : r.employeeId = e}

\* What a credit entry says, the id the store gave it aside.
Content(r) == [employeeId |-> r.employeeId, date |-> r.date, amount |-> r.amount]

ContentBag(rows) ==
    LET cs == {Content(r) : r \in rows}
    IN [x \in cs |-> Cardinality({r \in rows : Content(r) = x})]

LogNames(k) == [i \in 1..Len(k.storeCalls) |-> k.storeCalls[i].name]

Settled(c, e) ==
    /\ call[c][e].pc = "done"
    /\ call[c][e].outcome = "Salary Settled Successfully"

\* The invocation ended with an error message before any store call, and the
\* store is as the invocation found it.
Rejected(c, e) ==
    LET k == call[c][e] IN
    /\ k.pc = "done"
    /\ k.outcome \notin {"none", "Salary Settled Successfully", "Settlement Failed"}
    /\ k.storeCalls = <<>>
    /\ salaryTable = k.salaryEntries
    /\ creditTable = Range(k.creditEntries)
    /\ paymentTable = k.paymentRecords

\* S, C and D of an invocation: the sums over the store as the invocation
\* found it, and the adjustment it was given.
SalaryBefore(c, e) == AmountSum(RowsOf(call[c][e].salaryEntries, e))
CreditBefore(c, e) == AmountSum(RowsOf(Range(call[c][e].creditEntries), e))

\* C1: a settlement of employee E with S > 0 and 0 <= D <= C that runs alone
\* and whose store calls all succeed inserts exactly one payment record, with
\* salaryAmount S, creditDeducted D and netPaid S - D, and leaves E's credit
\* entries summing to C - D.
C1_SettlementArithmetic ==
    \A c \in Clients, e \in Employees :
        LET k == call[c][e]
            S == SalaryBefore(c, e)
            C == CreditBefore(c, e)
            D == k.manualCredit
        IN (Settled(c, e) /\ S > 0 /\ 0 <= D /\ D <= C) =>
              /\ paymentTable = k.paymentRecords (+) SetToBag(
                    {[employeeId |-> e, salaryAmount |-> S,
                      creditDeducted |-> D, netPaid |-> S - D,
                      paymentDate |-> Today]})
              /\ AmountSum(RowsOf(creditTable, e)) = C - D

\* A settlement that took a part of the credit, more than the salary.
C1_Witness ==
    \E c \in Clients, e \in Employees :
        /\ Settled(c, e)
        /\ call[c][e].manualCredit > SalaryBefore(c, e)
        /\ call[c][e].manualCredit < CreditBefore(c, e)
        /\ SalaryBefore(c, e) > 0

\* The orders of a set of rows with the dates ascending.
DateOrders(rows) ==
    LET n == Cardinality(rows)
    IN {s \in [1..n -> rows] :
          /\ \A i, j \in 1..n : i # j => s[i] # s[j]
          /\ \A i, j \in 1..n : i < j => s[i].date <= s[j].date}

RECURSIVE PrefixSum(_, _)
PrefixSum(s, p) == IF p = 0 THEN 0 ELSE s[p].amount + PrefixSum(s, p - 1)

ExampleBefore ==
    {[employeeId |-> "e1", date |-> 1, amount |-> 50],
     [employeeId |-> "e1", date |-> 2, amount |-> 30],
     [employeeId |-> "e1", date |-> 3, amount |-> 20]}

ExampleAfter ==
    {[employeeId |-> "e1", date |-> 2, amount |-> 20],
     [employeeId |-> "e1", date |-> 3, amount |-> 20]}

\* C2: the reallocation consumes E's credit oldest first: in E's entries
\* sorted by date the removed entries are a prefix, at most the one entry
\* after the prefix is reduced (and stays above zero), every later entry keeps
\* its amount; entries of 50, 30, 20 on days 1, 2, 3 and D = 60 leave 20 on
\* day 2 and 20 on day 3.
C2_OldestFirst ==
    \A c \in Clients, e \in Employees :
        Settled(c, e) =>
          LET k == call[c][e]
              D == k.manualCredit
              old == RowsOf(Range(k.creditEntries), e)
              new == RowsOf(creditTable, e)
          IN /\ \E L \in DateOrders(old) : \E p \in 0..Len(L) :
                   LET rest == D - PrefixSum(L, p)
                   IN /\ rest >= 0
                      /\ p < Len(L) => rest < L[p + 1].amount
                      /\ p = Len(L) => rest = 0
                      /\ ContentBag(new) = ContentBag(
                            {[L[i] EXCEPT !.amount =
                                 IF i = p + 1 THEN @ - rest ELSE @] :
                               i \in (p + 1)..Len(L)})
             /\ (D = 60 /\ ContentBag(old) = SetToBag(ExampleBefore))
                   => ContentBag(new) = SetToBag(ExampleAfter)

\* The settlement of the example.
C2_Witness ==
    \E c \in Clients :
        /\ Settled(c, "e1")
        /\ call[c]["e1"].manualCredit = 60
        /\ ContentBag(RowsOf(Range(call[c]["e1"].creditEntries), "e1"))
              = SetToBag(ExampleBefore)
        /\ ContentBag(RowsOf(creditTable, "e1")) = SetToBag(ExampleAfter)

\* C3: a settlement with D > C is rejected with a validation error: it issues
\* no store call and leaves the store as it was.
C3_ExceedingRejected ==
    \A c \in Clients, e \in Employees :
        (call[c][e].pc # "idle" /\ call[c][e].manualCredit > CreditBefore(c, e))
            => Rejected(c, e)

\* An employee with salary to settle, and an adjustment above the credit.
C3_Witness ==
    \E c \in Clients, e \in Employees :
        /\ Rejected(c, e)
        /\ SalaryBefore(c, e) > 0
        /\ CreditBefore(c, e) > 0
        /\ call[c][e].manualCredit > CreditBefore(c, e)
        /\ call[c][e].outcome =
              "Manual credit adjustment cannot exceed total available credit"

\* C4: a settlement with S <= 0 is rejected: it issues no store call and
\* leaves the store as it was.
C4_NoSalaryRejected ==
    \A c \in Clients, e \in Employees :
        (call[c][e].pc # "idle" /\ SalaryBefore(c, e) <= 0) => Rejected(c, e)

\* An employee without salary entries, and an adjustment within the credit.
C4_Witness ==
    \E c \in Clients, e \in Employees :
        /\ Rejected(c, e)
        /\ SalaryBefore(c, e) = 0
        /\ call[c][e].manualCredit > 0
        /\ call[c][e].manualCredit <= CreditBefore(c, e)
        /\ call[c][e].outcome = "Cannot settle salary - no salary entries found"

\* C5: a settlement with D < 0 is rejected with a validation error: it issues
\* no store call and leaves the store as it was.
C5_NegativeRejected ==
    \A c \in Clients, e \in Employees :
        (call[c][e].pc # "idle" /\ call[c][e].manualCredit < 0)
            => Rejected(c, e)

\* An employee with salary to settle, and a negative adjustment.
C5_Witness ==
    \E c \in Clients, e \in Employees :
        /\ Rejected(c, e)
        /\ SalaryBefore(c, e) > 0
        /\ call[c][e].manualCredit < 0
        /\ call[c][e].outcome = "Manual credit cannot be negative"

StatedRank == ("addPaymentRecord" :> 1) @@ ("deleteAll" :> 2) @@ ("insert" :> 2)
               @@ ("removeSalaryEntry" :> 3)

\* The order handleSettleSalary issues them in.
SourceRank == ("addPaymentRecord" :> 1) @@ ("removeSalaryEntry" :> 2)
              @@ ("deleteAll" :> 3) @@ ("insert" :> 4)

InRankOrder(names, rank) ==
    \A i, j \in 1..Len(names) : i < j => rank[names[i]] <= rank[names[j]]

\* C9 as stated: a settlement issues its store calls in the order payment
\* record, replacement of the credit entries, deletion of E's salary entries.
C9_AsStated ==
    \A c \in Clients, e \in Employees :
        InRankOrder(LogNames(call[c][e]), StatedRank)

\* C9: a settlement issues its store calls in the order payment record,
\* deletion of each of E's salary entries, replacement of the credit entries
\* (delete all, then insert), each issued when the one before has returned:
\* the payment record is in the store when the first deletion is issued, and
\* all of E's salary entries are gone when the replacement is.
C9_PaymentSalaryCredit ==
    \A c \in Clients, e \in Employees :
        LET k == call[c][e]
            names == LogNames(k)
        IN /\ InRankOrder(names, SourceRank)
           /\ Len(names) > 0 => names[1] = "addPaymentRecord"
           /\ Len(names) > 1 => BagIn(PaymentRecord(e, k), paymentTable)
           /\ (\E i \in 1..Len(names) : names[i] = "deleteAll")
                 => /\ k.toRemove = {}
                    /\ RowsOf(salaryTable, e) = {}
           /\ Settled(c, e) => names[Len(names)] \in {"deleteAll", "insert"}

\* A settlement that made all four kinds of store call.
C9_Witness ==
    \E c \in Clients, e \in Employees :
        /\ Settled(c, e)
        /\ Len(call[c][e].storeCalls) = 5
        /\ LogNames(call[c][e])[2] = "removeSalaryEntry"
        /\ LogNames(call[c][e])[5] = "insert"

\* The store as the store calls that succeeded leave it.
EffectsRemain(c, e) ==
    LET k == call[c][e]
        log == k.storeCalls
        done(name) == \E i \in 1..Len(log) : log[i].name = name /\ log[i].ok
        removed == {log[i].arg : i \in {j \in 1..Len(log) :
                       log[j].name = "removeSalaryEntry" /\ log[j].ok}}
    IN /\ paymentTable = IF done("addPaymentRecord")
                         THEN k.paymentRecords (+) SetToBag({PaymentRecord(e, k)})
                         ELSE k.paymentRecords
       /\ salaryTable = {en \in k.salaryEntries : en.id \notin removed}
       /\ creditTable = IF done("deleteAll") THEN {} ELSE Range(k.creditEntries)

\* C10: when a store call of a settlement fails, the settlement issues no
\* later store call and ends with the failure message, and the effects of the
\* store calls that had succeeded stay in the store: nothing is rolled back.
C10_FailureStops ==
    \A c \in Clients, e \in Employees :
        LET k == call[c][e]
            log == k.storeCalls
        IN /\ \A i \in 1..(Len(log) - 1) : log[i].ok
           /\ (Len(log) > 0 /\ ~log[Len(log)].ok) =>
                 /\ k.pc = "done"
                 /\ k.outcome = "Settlement Failed"
                 /\ EffectsRemain(c, e)

\* The payment record is written and a deletion of a salary entry failed: the
\* record stays, and so do the salary entries.
C10_Witness ==
    \E c \in Clients, e \in Employees :
        LET k == call[c][e]
            log == k.storeCalls
        IN /\ k.outcome = "Settlement Failed"
           /\ Len(log) = 2
           /\ log[2].name = "removeSalaryEntry"
           /\ BagIn(PaymentRecord(e, k), paymentTable)
           /\ RowsOf(salaryTable, e) # {}

\* The payment record of an invocation, from the store as it found it.
RecordOf(c, e) ==
    [employeeId |-> e, salaryAmount |-> SalaryBefore(c, e),
     creditDeducted |-> call[c][e].manualCredit,
     netPaid |-> SalaryBefore(c, e) - call[c][e].manualCredit,
     paymentDate |-> Today]

\* C11: the writes of a settlement are not atomic: when the payment record has
\* been inserted and a deletion of one of E's salary entries fails, the
\* settlement ends with the payment record in the store and with the salary
\* entries it had not yet deleted, which the record counts, still there.
C11_PaidAndStillOwed ==
    \A c \in Clients, e \in Employees :
        LET k == call[c][e]
            log == k.storeCalls
        IN (/\ k.outcome = "Settlement Failed"
            /\ Len(log) >= 2
            /\ log[Len(log)].name = "removeSalaryEntry") =>
              /\ k.pc = "done"
              /\ BagIn(RecordOf(c, e), paymentTable)
              /\ k.toRemove # {}
              /\ RowsOf(salaryTable, e) =
                    {en \in RowsOf(k.salaryEntries, e) : en.id \in k.toRemove}
              /\ AmountSum(RowsOf(salaryTable, e)) > 0
              /\ AmountSum(RowsOf(salaryTable, e)) <= RecordOf(c, e).salaryAmount

\* One salary entry deleted, the deletion of the next failed.
C11_Witness ==
    \E c \in Clients, e \in Employees :
        LET k == call[c][e]
            log == k.storeCalls
        IN /\ k.outcome = "Settlement Failed"
           /\ Len(log) = 3
           /\ log[3].name = "removeSalaryEntry"
           /\ BagIn(RecordOf(c, e), paymentTable)
           /\ Cardinality(RowsOf(salaryTable, e)) = 1
           /\ Cardinality(RowsOf(k.salaryEntries, e)) = 2

\* C14: every payment record in the store has netPaid = salaryAmount -
\* creditDeducted, and the record an invocation wrote has E's salary total as
\* salaryAmount and, as creditDeducted, the D that passed the validation of
\* that invocation (0 <= D <= C).
C14_RecordArithmetic ==
    /\ \A r \in BagToSet(paymentTable) :
          r.netPaid = r.salaryAmount - r.creditDeducted
    /\ \A c \in Clients, e \in Employees :
          LET k == call[c][e]
              log == k.storeCalls
          IN (Len(log) >= 1 /\ log[1].ok) =>
                /\ log[1].name = "addPaymentRecord"
                /\ 0 <= k.manualCredit
                /\ k.manualCredit <= CreditBefore(c, e)
                /\ SalaryBefore(c, e) > 0
                /\ BagIn(RecordOf(c, e), paymentTable)

\* A record with a deduction, written by a settlement that failed later.
C14_Witness ==
    \E c \in Clients, e \in Employees :
        /\ call[c][e].outcome = "Settlement Failed"
        /\ Len(call[c][e].storeCalls) >= 2
        /\ call[c][e].manualCredit > 0
        /\ BagIn(RecordOf(c, e), paymentTable)

\* C16: the net amount is not clamped at zero: a settlement with S > 0 and
\* S < D <= C passes the validation, and the payment record it inserts has
\* the negative netPaid S - D.
C16_NegativeNet ==
    \A c \in Clients, e \in Employees :
        LET k == call[c][e]
            S == SalaryBefore(c, e)
            D == k.manualCredit
        IN (k.pc # "idle" /\ S > 0 /\ S < D /\ D <= CreditBefore(c, e)) =>
              /\ k.pc = "done" => Settled(c, e)
              /\ Len(k.storeCalls) >= 1 =>
                    /\ BagIn(RecordOf(c, e), paymentTable)
                    /\ RecordOf(c, e).netPaid < 0
                    /\ \A r \in BagToSet(paymentTable) :
                          (r.employeeId = e /\ r.creditDeducted > r.salaryAmount)
                              => r.netPaid < 0

\* A settled employee whose record has a negative net amount.
C16_Witness ==
    \E c \in Clients, e \in Employees :
        /\ Settled(c, e)
        /\ \E r \in BagToSet(paymentTable) :
              /\ r.employeeId = e
              /\ r.netPaid < 0
              /\ r.netPaid = r.salaryAmount - r.creditDeducted

\* C19: a settlement never retries: an invocation issues the insert of the
\* payment record at most once, the deletion of each salary entry id at most
\* once, the deletion and the insert of the credit replacement at most once;
\* a successful settlement has added exactly one payment record.
C19_NoRetry ==
    \A c \in Clients, e \in Employees :
        LET k == call[c][e]
            log == k.storeCalls
        IN /\ \A i, j \in 1..Len(log) :
                 (i # j /\ log[i].name = log[j].name) =>
                    /\ log[i].name = "removeSalaryEntry"
                    /\ log[i].arg # log[j].arg
           /\ Settled(c, e) =>
                 /\ paymentTable = k.paymentRecords (+) SetToBag({RecordOf(c, e)})
                 /\ BagCardinality(paymentTable) =
                       BagCardinality(k.paymentRecords) + 1

\* A second settlement, of the other employee, that deleted a salary entry
\* and replaced the credit entries.
C19_Witness ==
    \E c \in Clients, e \in Employees :
        /\ Settled(c, e)
        /\ Len(call[c][e].storeCalls) = 4
        /\ BagCardinality(call[c][e].paymentRecords) = 1
        /\ BagCardinality(paymentTable) = 2

\* C17: the cap the validation of a settlement uses is the lifetime total of
\* E's credit: the sum of the amounts of all of E's credit entries in the
\* snapshot, dated before or after E's last payment; a D of 0 or more is
\* refused as exceeding exactly when it is above that sum.
C17_LifetimeCap ==
    \A c \in Clients, e \in Employees :
        LET k == call[c][e]
            D == k.manualCredit
            exceeds == k.outcome =
                "Manual credit adjustment cannot exceed total available credit"
        IN k.pc # "idle" =>
              /\ k.totalCredit = CreditBefore(c, e)
              /\ (0 <= D /\ D <= CreditBefore(c, e)) => ~exceeds
              /\ D > CreditBefore(c, e) => exceeds

\* E was paid on day 2 and has credit of day 2 or before and credit of after:
\* a settlement took more than the credit dated after the payment.
C17_Witness ==
    \E c \in Clients :
        LET k == call[c]["e1"]
            old == RowsOf(Range(k.creditEntries), "e1")
        IN /\ Settled(c, "e1")
           /\ BagIn(EarlierPayment, k.paymentRecords)
           /\ \E en \in old : en.date <= 2
           /\ \E en \in old : en.date > 2
           /\ k.manualCredit > AmountSum({en \in old : en.date > 2})

\* C20: an empty or non-numeric manual deduction input is taken as D = 0: the
\* settlement passes the credit validation, its payment record has
\* creditDeducted = 0 and netPaid = S, and no credit entry is removed or
\* reduced.
C20_SilentZero ==
    \A c \in Clients, e \in Employees :
        LET k == call[c][e]
            S == SalaryBefore(c, e)
        IN (k.pc # "idle" /\ k.raw \notin DOMAIN Numerals) =>
              /\ k.manualCredit = 0
              /\ k.outcome \notin
                    {"Manual credit cannot be negative",
                     "Manual credit adjustment cannot exceed total available credit"}
              /\ (S > 0 /\ k.pc = "done") => Settled(c, e)
              /\ Len(k.storeCalls) >= 1 =>
                    BagIn([employeeId |-> e, salaryAmount |-> S,
                           creditDeducted |-> 0, netPaid |-> S,
                           paymentDate |-> Today], paymentTable)
              /\ Settled(c, e) =>
                    ContentBag(creditTable) = ContentBag(Range(k.creditEntries))

\* A settlement with letters in the field, of an employee who has credit.
C20_Witness ==
    \E c \in Clients, e \in Employees :
        /\ Settled(c, e)
        /\ call[c][e].raw = "abc"
        /\ RowsOf(creditTable, e) # {}

\* The same with the field left empty.
C20_WitnessEmpty ==
    \E c \in Clients, e \in Employees :
        /\ Settled(c, e)
        /\ call[c][e].raw = ""
        /\ RowsOf(creditTable, e) # {}

\* C13: payment records are append-only: whatever the operators do (add
\* salary, add, edit or delete credit, settle, settle and fail), every payment
\* record of the store is in the store afterwards, as many times and with the
\* same fields.
C13_AppendOnly == [][paymentTable \sqsubseteq paymentTable']_vars

\* Two records in the store, the first of them there through a settlement
\* that failed after it and through what the forms did since.
C13_Witness ==
    /\ BagCardinality(paymentTable) = 2
    /\ creditTable # {}
    /\ \E c \in Clients, e \in Employees :
          /\ call[c][e].outcome = "Settlement Failed"
          /\ call[c][e].paymentRecords # EmptyBag
          /\ \E r \in BagToSet(call[c][e].paymentRecords) : r.employeeId = e

BothSettled(c1, c2, e) ==
    /\ c1 # c2
    /\ Settled(c1, e)
    /\ Settled(c2, e)
    /\ call[c1][e].salaryEntries = call[c2][e].salaryEntries
    /\ Range(call[c1][e].creditEntries) = Range(call[c2][e].creditEntries)
    /\ call[c1][e].paymentRecords = call[c2][e].paymentRecords

\* What the credit entries an invocation computed say.
CollectionOf(c, e) ==
    ContentBag(Range(UpdatedCreditEntries(call[c][e].creditEntries, e,
                                          call[c][e].manualCredit)))

\* C12 as stated: each of the two operators overwrites the credit collection,
\* so the store ends with the collection of one of them and the result of
\* the other is lost.
C12_AsStated ==
    \A c1, c2 \in Clients, e \in Employees :
        BothSettled(c1, c2, e) =>
            ContentBag(creditTable) \in {CollectionOf(c1, e), CollectionOf(c2, e)}

\* C12: two settlements of E started by two operators from the same state of
\* the store both pass the validation and both write: the store has a payment
\* record of each, both for the salary total S, and its credit entries are
\* the collection of one operator (the other's is lost) or, when both
\* operators deleted before either inserted, the two collections together.
C12_Uncoordinated ==
    \A c1, c2 \in Clients, e \in Employees :
        BothSettled(c1, c2, e) =>
            /\ paymentTable = call[c1][e].paymentRecords
                  (+) SetToBag({RecordOf(c1, e)}) (+) SetToBag({RecordOf(c2, e)})
            /\ RecordOf(c1, e).salaryAmount = RecordOf(c2, e).salaryAmount
            /\ RowsOf(salaryTable, e) = {}
            /\ ContentBag(creditTable) \in
                  {CollectionOf(c1, e), CollectionOf(c2, e),
                   CollectionOf(c1, e) (+) CollectionOf(c2, e)}

\* Two operators settled E with different D: the store has the collection of
\* the one, and the deduction of the other is in a payment record only.
C12_Witness ==
    \E c1, c2 \in Clients, e \in Employees :
        /\ BothSettled(c1, c2, e)
        /\ call[c1][e].manualCredit = 30
        /\ call[c2][e].manualCredit = 0
        /\ ContentBag(creditTable) = CollectionOf(c2, e)
        /\ CollectionOf(c1, e) # CollectionOf(c2, e)

\* C18 as stated: every quotient a page shows is guarded, a denominator of 0
\* gives 0: the average salary per entry, the average payable per employee
\* and the rate per liter, also for an entry with liters = 0.
C18_DivisionsGuarded ==
    \A cell \in rendered : cell.denominator = 0 => cell.value = Zero

\* C21: the salary form inserts an entry only with an amount and liters above
\* 0; a submission it answers with an error (a field missing, not a number,
\* zero or negative) leaves the salary table as it was, so every salary entry
\* in the store has amount > 0 and liters > 0.
C21_SalaryPositive ==
    [][/\ \A en \in salaryTable' : en.amount > 0 /\ en.liters > 0
       /\ journal'.toast # "Salary entry added successfully"
             => salaryTable' = salaryTable]_vars

\* The form has refused a submission for its liters, after it had added an
\* entry.
C21_Witness ==
    /\ journal.toast = "Please enter valid liters"
    /\ salaryTable # {}

\* The invocation ended in the catch block because the insert of the new
\* credit entries returned an error.
InsertFailed(c, e) ==
    LET k == call[c][e]
        log == k.storeCalls
    IN /\ k.pc = "done"
       /\ k.outcome = "Settlement Failed"
       /\ Len(log) >= 2
       /\ log[Len(log)].name = "insert" /\ ~log[Len(log)].ok
       /\ log[Len(log) - 1].name = "deleteAll" /\ log[Len(log) - 1].ok

\* C23: when the delete of all credit entries has succeeded and the insert
\* that follows it fails, the store holds no credit entry of any employee,
\* and the payment record of the settlement is still there.
C23_CreditWiped ==
    \A c \in Clients, e \in Employees :
        InsertFailed(c, e) =>
            /\ creditTable = {}
            /\ paymentTable =
                  call[c][e].paymentRecords (+) SetToBag({RecordOf(c, e)})

\* The insert failed in a settlement that had found credit entries of the
\* other employee too.
C23_Witness ==
    \E c \in Clients, e \in Employees :
        /\ InsertFailed(c, e)
        /\ \E en \in Range(call[c][e].creditEntries) : en.employeeId # e
        /\ \E en \in Range(call[c][e].creditEntries) : en.employeeId = e

\* The payment records of E in a bag of records.
RecordsOfEmployee(records, e) ==
    LET rs == {r \in BagToSet(records) : r.employeeId = e}
    IN IF rs = {} THEN 0
       ELSE BagCardinality([r \in rs |-> records[r]])

\* An attempt for E that found a payment record of E and salary entries of E
\* side by side: an earlier attempt wrote the record and failed before it had
\* deleted them (the salary form adds none once a record exists).
LaterAttempt(c, e) ==
    LET k == call[c][e] IN
    /\ k.pc # "idle"
    /\ RecordsOfEmployee(k.paymentRecords, e) > 0
    /\ RowsOf(k.salaryEntries, e) # {}

\* C24: after an attempt that wrote its payment record and failed with salary
\* entries of E left, E can be settled again: an attempt with a D the
\* validation accepts is not refused, and the record it inserts is one more
\* record of E, whose salaryAmount is the sum of the entries that are left,
\* entries the earlier record has paid already.
C24_PaidTwice ==
    \A c \in Clients, e \in Employees :
        LET k == call[c][e] IN
        LaterAttempt(c, e) =>
            /\ (k.pc = "done" /\ 0 <= k.manualCredit
                   /\ k.manualCredit <= CreditBefore(c, e))
                  => k.outcome \in {"Salary Settled Successfully",
                                    "Settlement Failed"}
            /\ (k.storeCalls # <<>> /\ k.storeCalls[1].ok) =>
                  /\ k.storeCalls[1].name = "addPaymentRecord"
                  /\ BagIn(RecordOf(c, e), paymentTable)
                  /\ RecordsOfEmployee(paymentTable, e)
                        = RecordsOfEmployee(k.paymentRecords, e) + 1
                  /\ RecordOf(c, e).salaryAmount > 0
                  /\ \E r \in BagToSet(k.paymentRecords) :
                        /\ r.employeeId = e
                        /\ RecordOf(c, e).salaryAmount <= r.salaryAmount

\* A second attempt for E has succeeded: the store has two payment records
\* of E for the same salary entries.
C24_Witness ==
    \E c \in Clients, e \in Employees :
        /\ LaterAttempt(c, e)
        /\ Settled(c, e)
        /\ RecordsOfEmployee(paymentTable, e) = 2
        /\ \E r \in BagToSet(call[c][e].paymentRecords) :
              r.employeeId = e /\ r.salaryAmount = RecordOf(c, e).salaryAmount

\* C29: the replace of the credit collection writes the employee, the date
\* and the amount of every entry it keeps into rows of its own: after a
\* successful settlement the entries say what the recomputed collection says,
\* those of the other employees included, and none of them has an id that a
\* credit entry had before the settlement.
C29_NewRows ==
    \A c \in Clients, e \in Employees :
        Settled(c, e) =>
            /\ ContentBag(creditTable) = CollectionOf(c, e)
            /\ {en.id : en \in creditTable}
                  \cap {en.id : en \in Range(call[c][e].creditEntries)} = {}

\* A settlement that took part of E's credit has ended, and the store has
\* an entry of E and one of the other employee.
C29_Witness ==
    \E c \in Clients, e \in Employees :
        /\ Settled(c, e)
        /\ call[c][e].manualCredit > 0
        /\ RowsOf(creditTable, e) # {}
        /\ \E en \in creditTable : en.employeeId # e

\* The stages of an invocation between setIsSettling and the finally block.
Settling(k) ==
    \/ k.pc \in {"addPaymentRecord", "removeSalaryEntry", "deleteAll", "insert"}
    \/ k.pc = "done" /\ k.outcome \in {"Salary Settled Successfully",
                                       "Settlement Failed"}

\* C26: at one client the flag of E is up exactly while a settlement of E
\* that passed the validation has not ended; the buttons start a settlement
\* of E only with the flag down, so no second one starts meanwhile, and an
\* attempt the validation turns down leaves the flag down.
C26_FlagExcludes ==
    [][\A c \in Clients, e \in Employees :
          /\ isSettling'[c][e] <=> Settling(call'[c][e])
          /\ (call[c][e].pc = "idle" /\ call'[c][e].pc # "idle")
                => ~isSettling[c][e]
          /\ (call[c][e].pc = "idle" /\ call'[c][e].pc = "done")
                => ~isSettling'[c][e]]_vars

\* A settlement of E is between two store calls, its flag up.
C26_Witness ==
    \E c \in Clients, e \in Employees :
        /\ isSettling[c][e]
        /\ call[c][e].pc = "deleteAll"

\* C27: a settlement that passed the validation ends, whether its store calls
\* succeed or one of them fails, and the flag of E is down once it has ended:
\* a flag that is up goes down.
C27_FlagCleared ==
    \A c \in Clients, e \in Employees :
        isSettling[c][e] ~> ~isSettling[c][e]

\* A settlement has reached the catch block, its flag still up.
C27_Witness ==
    \E c \in Clients, e \in Employees :
        /\ isSettling[c][e]
        /\ call[c][e].pc = "done"
        /\ call[c][e].outcome = "Settlement Failed"

\* The sum of a field over the payment records of E.
RECURSIVE PaidSum(_, _, _)
PaidSum(records, e, field) ==
    LET rs == {r \in BagToSet(records) : r.employeeId = e}
    IN IF rs = {} THEN 0
       ELSE LET r == CHOOSE x \in rs : TRUE
            IN records[r] * r[field]
                  + PaidSum([x \in BagToSet(records) \ {r} |-> records[x]],
                            e, field)

\* C25: when salary and credit entries are added and salaries settled one
\* after the other, every store call succeeding, then between the operations
\* each employee's books balance: the salary added so far is the salary in the
\* store plus the salaryAmount of the payment records, and the credit added so
\* far is the credit in the store plus the creditDeducted of the records.
C25_Conservation ==
    (\A c \in Clients, e \in Employees : call[c][e].pc \in {"idle", "done"}) =>
        \A e \in Employees :
            /\ journal.salaryAdded[e] =
                  AmountSum(RowsOf(salaryTable, e))
                     + PaidSum(paymentTable, e, "salaryAmount")
            /\ journal.creditAdded[e] =
                  AmountSum(RowsOf(creditTable, e))
                     + PaidSum(paymentTable, e, "creditDeducted")

\* After a settlement of E that took credit, E has a salary entry again and
\* credit left.
C25_Witness ==
    \E e \in Employees :
        /\ ~AnyInFlight
        /\ \E r \in BagToSet(paymentTable) :
              r.employeeId = e /\ r.creditDeducted > 0
        /\ RowsOf(salaryTable, e) # {}
        /\ RowsOf(creditTable, e) # {}

\* C22: the replace of the credit collection knows the snapshot only.  Its
\* delete leaves no credit entry in the store, whatever was added or edited
\* since the snapshot, and what its insert writes is the collection computed
\* from the snapshot: a change made after the snapshot and before the replace
\* is not in the store after it.
C22_LostUpdate ==
    [][\A c \in Clients, e \in Employees :
          /\ (call[c][e].pc = "deleteAll" /\ call'[c][e].pc # "deleteAll")
                => creditTable' = {}
          /\ (call[c][e].pc = "insert" /\ call'[c][e].pc # "insert")
                => /\ creditTable \subseteq creditTable'
                   /\ ContentBag(creditTable' \ creditTable) = CollectionOf(c, e)]_vars

\* A settlement has replaced the collection, and credit that the form entered
\* for an employee meanwhile is neither in the store nor in a payment record.
C22_Witness ==
    \E c \in Clients, e \in Employees, o \in Employees :
        /\ Settled(c, e)
        /\ ContentBag(creditTable) = CollectionOf(c, e)
        /\ journal.creditAdded[o] >
              AmountSum(RowsOf(creditTable, o))
                 + PaidSum(paymentTable, o, "creditDeducted")

\* C28: a settlement of E deletes salary entries of its snapshot only, by
\* their ids, and its payment record counts those: when it has ended, the
\* entries of E in its snapshot are gone and their sum is the salaryAmount of
\* its record, while an entry of E that was added after the snapshot is
\* neither deleted nor counted.
C28_SnapshotOnly ==
    [][/\ \A en \in salaryTable \ salaryTable' :
             \E c \in Clients :
                /\ call[c][en.employeeId].pc = "removeSalaryEntry"
                /\ en \in call[c][en.employeeId].salaryEntries
       /\ \A c \in Clients, e \in Employees :
             (call'[c][e].pc = "done"
                 /\ call'[c][e].outcome = "Salary Settled Successfully") =>
                /\ RowsOf(call'[c][e].salaryEntries, e) \cap salaryTable' = {}
                /\ \E r \in BagToSet(paymentTable') :
                      /\ r.employeeId = e
                      /\ r.salaryAmount =
                            AmountSum(RowsOf(call'[c][e].salaryEntries, e))]_vars

\* A settlement of E has ended, and the store has a salary entry of E that
\* its snapshot did not have.
C28_Witness ==
    \E c \in Clients, e \in Employees :
        /\ Settled(c, e)
        /\ \E en \in salaryTable :
              en.employeeId = e /\ en \notin call[c][e].salaryEntries
        /\ journal.salaryAdded[e] >
              AmountSum(RowsOf(call[c][e].salaryEntries, e))

====
